---- MODULE Spec2Model ----
(***************************************************************************)
(* Model of the Nitro Secure Module client library:                        *)
(*   src/src/api/mod.rs     the wire schema (tagged unions, AttestationDoc)*)
(*   src/src/driver/mod.rs  nsm_init / nsm_process_request / nsm_exit      *)
(*                                                                         *)
(* Values.  A Rust enum value is a record with a "variant" field and the   *)
(* variant's fields; Option<T> is a sequence of length 0 (None) or 1       *)
(* (Some); Vec<u8> and String are sequences of bytes (a String holds its   *)
(* UTF-8 bytes); BTreeSet is a set; BTreeMap is a function on a finite set *)
(* of keys.  Unsigned integers are TLA+ integers below 2^31.               *)
(*                                                                         *)
(* Wire format.  The schema derives its codec with #[n(i)] tags: an enum   *)
(* value is the 2-element CBOR array [variant tag, fields], the fields of  *)
(* a variant or struct are a CBOR array indexed by field tag, absent       *)
(* Options are null, and the array stops after the last field that is not  *)
(* an absent Option.  Vec<u8> carries no bytes attribute, so it is an      *)
(* array of unsigned integers, one item per byte.                          *)
(***************************************************************************)
EXTENDS Integers, Sequences, FiniteSets, TLC

(***************************************************************************)
(* CBOR primitives                                                         *)
(***************************************************************************)

\* Variant of EncHead that puts 24 itself into the initial byte.
EncHead_Boundary(major, n) ==
  IF n <= 24 THEN <<major * 32 + n>>
  ELSE IF n < 256 THEN <<major * 32 + 24, n>>
  ELSE IF n < 65536 THEN <<major * 32 + 25, n \div 256, n % 256>>
  ELSE <<major * 32 + 26, (n \div 16777216) % 256, (n \div 65536) % 256,
         (n \div 256) % 256, n % 256>>

\* The initial byte and argument of a data item (RFC 8949, section 3):
\* the shortest form that holds n.
EncHead(major, n) ==
  IF n < 24 THEN <<major * 32 + n>>
  ELSE IF n < 256 THEN <<major * 32 + 24, n>>
  ELSE IF n < 65536 THEN <<major * 32 + 25, n \div 256, n % 256>>
  ELSE <<major * 32 + 26, (n \div 16777216) % 256, (n \div 65536) % 256,
         (n \div 256) % 256, n % 256>>

EncodeUint(n) == EncHead(0, n)

EncodeBool(v) == IF v THEN <<245>> ELSE <<244>>

EncodeNull == <<246>>

EncodeStr(s) == EncHead(3, Len(s)) \o s

\* The items of v[lo..hi], each an unsigned integer (halving keeps the
\* evaluation shallow for vectors of thousands of bytes).
RECURSIVE EncodeU8Items(_, _, _)
EncodeU8Items(v, lo, hi) ==
  IF lo > hi THEN <<>>
  ELSE IF lo = hi THEN EncodeUint(v[lo])
  ELSE LET mid == (lo + hi) \div 2
       IN EncodeU8Items(v, lo, mid) \o EncodeU8Items(v, mid + 1, hi)

\* Vec<u8>: an array of Len(v) unsigned integers.
EncodeVecU8(v) == EncHead(4, Len(v)) \o EncodeU8Items(v, 1, Len(v))

\* Option<Vec<u8>>: null when absent.
EncodeOptVecU8(o) == IF o = <<>> THEN EncodeNull ELSE EncodeVecU8(o[1])

\* Vec<Vec<u8>>
RECURSIVE EncodeVecItems(_, _)
EncodeVecItems(vv, i) ==
  IF i > Len(vv) THEN <<>> ELSE EncodeVecU8(vv[i]) \o EncodeVecItems(vv, i + 1)

EncodeVecVecU8(vv) == EncHead(4, Len(vv)) \o EncodeVecItems(vv, 1)

Min(S) == CHOOSE x \in S : \A y \in S : x <= y

\* The elements from the greatest down: a BTreeMap iterated backwards.
RECURSIVE Ascending_Reversed(_)
Ascending_Reversed(S) ==
  IF S = {} THEN <<>> ELSE Ascending_Reversed(S \ {Min(S)}) \o <<Min(S)>>

\* The elements of a finite set of integers in ascending order: the order
\* in which a BTreeSet or the keys of a BTreeMap are iterated.
RECURSIVE Ascending(_)
Ascending(S) ==
  IF S = {} THEN <<>> ELSE <<Min(S)>> \o Ascending(S \ {Min(S)})

RECURSIVE EncodeUintItems(_, _)
EncodeUintItems(s, i) ==
  IF i > Len(s) THEN <<>> ELSE EncodeUint(s[i]) \o EncodeUintItems(s, i + 1)

\* BTreeSet<u16>: an array of its elements in ascending order.
EncodeSetU16(S) ==
  EncHead(4, Cardinality(S)) \o EncodeUintItems(Ascending(S), 1)

RECURSIVE EncodeMapEntries(_, _, _)
EncodeMapEntries(m, keys, i) ==
  IF i > Len(keys) THEN <<>>
  ELSE EncodeUint(keys[i]) \o EncodeVecU8(m[keys[i]])
       \o EncodeMapEntries(m, keys, i + 1)

\* BTreeMap<usize, Vec<u8>>: a map whose entries follow ascending keys.
EncodeMapUsizeVecU8(m) ==
  EncHead(5, Cardinality(DOMAIN m))
    \o EncodeMapEntries(m, Ascending(DOMAIN m), 1)

\* Variant of FieldArrayLen that counts the fields present.
FieldArrayLen_CountPresent(present, n) ==
  Cardinality({i \in 1..n : present[i]})

\* The length of the field array of a struct or variant whose fields (in
\* tag order 0..n-1) are `present`: one past the last field that is not an
\* absent Option, and 0 when there is none.
RECURSIVE FieldArrayLen(_, _)
FieldArrayLen(present, n) ==
  IF n = 0 THEN 0
  ELSE IF present[n] THEN n
  ELSE FieldArrayLen(present, n - 1)

\* An enum value: [variant tag, field array].
EncodeVariant(tag, nfields, fields) ==
  EncHead(4, 2) \o EncodeUint(tag) \o EncHead(4, nfields) \o fields

(***************************************************************************)
(* The schema: tags and encoders                                           *)
(***************************************************************************)

\* The #[n(..)] tag of every variant of the four tagged unions.
ErrorCodeTag ==
  [Success |-> 0, InvalidArgument |-> 1, InvalidIndex |-> 2,
   InvalidResponse |-> 3, ReadOnlyIndex |-> 4, InvalidOperation |-> 5,
   BufferTooSmall |-> 6, InputTooLarge |-> 7, InternalError |-> 8]

\* Variant of RequestTag in which LockPCRs was given the tag of LockPCR.
RequestTag_Renumbered ==
  [DescribePCR |-> 0, ExtendPCR |-> 1, LockPCR |-> 2, LockPCRs |-> 2,
   DescribeNSM |-> 4, Attestation |-> 5, GetRandom |-> 6]

RequestTag ==
  [DescribePCR |-> 0, ExtendPCR |-> 1, LockPCR |-> 2, LockPCRs |-> 3,
   DescribeNSM |-> 4, Attestation |-> 5, GetRandom |-> 6]

ResponseTag ==
  [DescribePCR |-> 0, ExtendPCR |-> 1, LockPCR |-> 2, LockPCRs |-> 3,
   DescribeNSM |-> 4, Attestation |-> 5, GetRandom |-> 6, Error |-> 7]

DigestTag == [SHA256 |-> 0, SHA384 |-> 1, SHA512 |-> 2]

\* The #[n(..)] tag of every field of every variant, and of every field of
\* AttestationDoc.
RequestFieldTag ==
  [DescribePCR |-> [index |-> 0],
   ExtendPCR |-> [index |-> 0, data |-> 1],
   LockPCR |-> [index |-> 0],
   LockPCRs |-> [range |-> 0],
   DescribeNSM |-> <<>>,
   Attestation |-> [user_data |-> 0, nonce |-> 1, public_key |-> 2],
   GetRandom |-> <<>>]

ResponseFieldTag ==
  [DescribePCR |-> [lock |-> 0, data |-> 1],
   ExtendPCR |-> [data |-> 0],
   LockPCR |-> <<>>,
   LockPCRs |-> <<>>,
   DescribeNSM |-> [version_major |-> 0, version_minor |-> 1,
                    version_patch |-> 2, module_id |-> 3, max_pcrs |-> 4,
                    locked_pcrs |-> 5, digest |-> 6],
   Attestation |-> [document |-> 0],
   GetRandom |-> [random |-> 0],
   Error |-> [code |-> 0]]

AttestationDocFieldTag ==
  [module_id |-> 0, digest |-> 1, timestamp |-> 2, pcrs |-> 3,
   certificate |-> 4, cabundle |-> 5, public_key |-> 6, user_data |-> 7,
   nonce |-> 8]

\* The variants of a union that carry tag k: the arms a decoder's match on
\* the tag can take.
VariantsOf(tags, k) == {v \in DOMAIN tags : tags[v] = k}

EncodeErrorCode(c) == EncodeVariant(ErrorCodeTag[c], 0, <<>>)

EncodeDigest(d) == EncodeVariant(DigestTag[d], 0, <<>>)

\* Response::Error(code), the value every failure path returns.
ErrorResponse(code) == [variant |-> "Error", code |-> code]

EncodeRequest(r) ==
  LET tag == RequestTag[r.variant] IN
  CASE r.variant = "DescribePCR" ->
         EncodeVariant(tag, 1, EncodeUint(r.index))
    [] r.variant = "ExtendPCR" ->
         EncodeVariant(tag, 2, EncodeUint(r.index) \o EncodeVecU8(r.data))
    [] r.variant = "LockPCR" ->
         EncodeVariant(tag, 1, EncodeUint(r.index))
    [] r.variant = "LockPCRs" ->
         EncodeVariant(tag, 1, EncodeUint(r.range))
    [] r.variant = "DescribeNSM" -> EncodeVariant(tag, 0, <<>>)
    [] r.variant = "Attestation" ->
         LET opts == <<r.user_data, r.nonce, r.public_key>>
             n == FieldArrayLen([i \in 1..3 |-> opts[i] # <<>>], 3)
         IN EncodeVariant(tag, n,
              (IF n >= 1 THEN EncodeOptVecU8(opts[1]) ELSE <<>>)
              \o (IF n >= 2 THEN EncodeOptVecU8(opts[2]) ELSE <<>>)
              \o (IF n >= 3 THEN EncodeOptVecU8(opts[3]) ELSE <<>>))
    [] r.variant = "GetRandom" -> EncodeVariant(tag, 0, <<>>)

EncodeResponse(r) ==
  LET tag == ResponseTag[r.variant] IN
  CASE r.variant = "DescribePCR" ->
         EncodeVariant(tag, 2, EncodeBool(r.lock) \o EncodeVecU8(r.data))
    [] r.variant = "ExtendPCR" -> EncodeVariant(tag, 1, EncodeVecU8(r.data))
    [] r.variant = "LockPCR" -> EncodeVariant(tag, 0, <<>>)
    [] r.variant = "LockPCRs" -> EncodeVariant(tag, 0, <<>>)
    [] r.variant = "DescribeNSM" ->
         EncodeVariant(tag, 7,
           EncodeUint(r.version_major) \o EncodeUint(r.version_minor)
           \o EncodeUint(r.version_patch) \o EncodeStr(r.module_id)
           \o EncodeUint(r.max_pcrs) \o EncodeSetU16(r.locked_pcrs)
           \o EncodeDigest(r.digest))
    [] r.variant = "Attestation" ->
         EncodeVariant(tag, 1, EncodeVecU8(r.document))
    [] r.variant = "GetRandom" -> EncodeVariant(tag, 1, EncodeVecU8(r.random))
    [] r.variant = "Error" -> EncodeVariant(tag, 1, EncodeErrorCode(r.code))

\* AttestationDoc::to_binary: a struct is its field array alone.
to_binary(doc) ==
  LET present == [i \in 1..9 |->
                    CASE i = 7 -> doc.public_key # <<>>
                      [] i = 8 -> doc.user_data # <<>>
                      [] i = 9 -> doc.nonce # <<>>
                      [] OTHER -> TRUE]
      n == FieldArrayLen(present, 9)
  IN EncHead(4, n)
       \o EncodeStr(doc.module_id)
       \o EncodeDigest(doc.digest)
       \o EncodeUint(doc.timestamp)
       \o EncodeMapUsizeVecU8(doc.pcrs)
       \o EncodeVecU8(doc.certificate)
       \o EncodeVecVecU8(doc.cabundle)
       \o (IF n >= 7 THEN EncodeOptVecU8(doc.public_key) ELSE <<>>)
       \o (IF n >= 8 THEN EncodeOptVecU8(doc.user_data) ELSE <<>>)
       \o (IF n >= 9 THEN EncodeOptVecU8(doc.nonce) ELSE <<>>)

(***************************************************************************)
(* Decoders.  A decoder reads one value at position p (1-based) of the     *)
(* bytes b and yields [ok, val, pos]: whether it parsed, the value, and    *)
(* the position after it.  Only success or failure of a parse is kept, not *)
(* the kind of decode error: the callers drop it too.                      *)
(***************************************************************************)

Ok(v, p) == [ok |-> TRUE, val |-> v, pos |-> p]

Fail == [ok |-> FALSE, val |-> <<>>, pos |-> 0]

\* Unsigned values the model can hold (TLC integers are 32-bit).
UintLimit == 32768 * 65535 + 32767

Range(s) == {s[i] : i \in 1..Len(s)}

\* The head of the item at p: its major type, additional information and
\* argument.  arg is -1 for an argument of 2^31 or more; ai = 31 marks an
\* indefinite length (or the break byte).
DHead(b, p) ==
  LET H(m, a, v, q) == [ok |-> TRUE, major |-> m, ai |-> a, arg |-> v, pos |-> q]
      HErr == [ok |-> FALSE, major |-> 0, ai |-> 0, arg |-> 0, pos |-> 0]
  IN
  IF p < 1 \/ p > Len(b) THEN HErr
  ELSE
    LET major == b[p] \div 32
        ai == b[p] % 32
    IN
    IF ai < 24 THEN H(major, ai, ai, p + 1)
    ELSE IF ai = 24 THEN
      IF p + 1 > Len(b) THEN HErr ELSE H(major, ai, b[p + 1], p + 2)
    ELSE IF ai = 25 THEN
      IF p + 2 > Len(b) THEN HErr
      ELSE H(major, ai, b[p + 1] * 256 + b[p + 2], p + 3)
    ELSE IF ai = 26 THEN
      IF p + 4 > Len(b) THEN HErr
      ELSE IF b[p + 1] >= 128 THEN H(major, ai, -1, p + 5)
      ELSE H(major, ai,
             b[p + 1] * 16777216 + b[p + 2] * 65536 + b[p + 3] * 256 + b[p + 4],
             p + 5)
    ELSE IF ai = 27 THEN
      IF p + 8 > Len(b) THEN HErr
      ELSE IF (\E i \in 1..4 : b[p + i] # 0) \/ b[p + 5] >= 128
        THEN H(major, ai, -1, p + 9)
      ELSE H(major, ai,
             b[p + 5] * 16777216 + b[p + 6] * 65536 + b[p + 7] * 256 + b[p + 8],
             p + 9)
    ELSE IF ai = 31 THEN H(major, ai, 0, p + 1)
    ELSE HErr

\* A decoder's result handed to the next step, a failure passed through
\* (the ? of the decoders).
Bind(r, Then(_)) == IF r.ok THEN Then(r) ELSE Fail

\* A position (0 for a failure) handed to the next step.
BindPos(q, Then(_)) == IF q = 0 THEN Fail ELSE Then(q)

\* An unsigned integer of any encoded width whose value fits the target
\* type (max).
UintOfHead(h, max) ==
  IF h.ok /\ h.major = 0 /\ h.ai # 31 /\ h.arg # -1 /\ h.arg <= max
    THEN Ok(h.arg, h.pos)
  ELSE Fail

DecodeUint(b, p, max) == UintOfHead(DHead(b, p), max)

\* Skipping one well-formed item of any type: the position after it, or 0.
RECURSIVE Skip(_, _)
RECURSIVE SkipN(_, _, _)
RECURSIVE SkipUntilBreak(_, _)
SkipAfterHead(b, h) ==
  IF ~h.ok THEN 0
  ELSE IF h.major \in {0, 1} THEN (IF h.ai = 31 THEN 0 ELSE h.pos)
  ELSE IF h.major \in {2, 3} THEN
    IF h.ai = 31 THEN SkipUntilBreak(b, h.pos)
    ELSE IF h.arg = -1 \/ h.arg > Len(b) + 1 - h.pos THEN 0
    ELSE h.pos + h.arg
  ELSE IF h.major \in {4, 5} THEN
    IF h.ai = 31 THEN SkipUntilBreak(b, h.pos)
    ELSE IF h.arg = -1 \/ h.arg > Len(b) THEN 0
    ELSE SkipN(b, h.pos, IF h.major = 4 THEN h.arg ELSE 2 * h.arg)
  ELSE IF h.major = 6 THEN (IF h.ai = 31 THEN 0 ELSE Skip(b, h.pos))
  ELSE (IF h.ai = 31 THEN 0 ELSE h.pos)

Skip(b, p) == SkipAfterHead(b, DHead(b, p))

SkipRest(b, q, n) == IF q = 0 THEN 0 ELSE SkipN(b, q, n)

SkipN(b, p, n) ==
  IF n = 0 THEN p
  ELSE IF n > Len(b) + 1 - p THEN 0
  ELSE IF n = 1 THEN Skip(b, p)
  ELSE SkipRest(b, SkipN(b, p, n \div 2), n - n \div 2)

SkipUntilBreak(b, p) ==
  IF p < 1 \/ p > Len(b) THEN 0
  ELSE IF b[p] = 255 THEN p + 1
  ELSE SkipUntilBreak(b, Skip(b, p))

\* Well-formed UTF-8 (RFC 3629) from position i of s on.
RECURSIVE IsUtf8From(_, _)
IsUtf8From(s, i) ==
  LET Cont(k, lo, hi) ==
        /\ i + k <= Len(s)
        /\ s[i + 1] \in lo..hi
        /\ \A j \in 2..k : s[i + j] \in 128..191
        /\ IsUtf8From(s, i + k + 1)
  IN
  IF i > Len(s) THEN TRUE
  ELSE IF s[i] < 128 THEN IsUtf8From(s, i + 1)
  ELSE IF s[i] \in 194..223 THEN Cont(1, 128, 191)
  ELSE IF s[i] = 224 THEN Cont(2, 160, 191)
  ELSE IF s[i] = 237 THEN Cont(2, 128, 159)
  ELSE IF s[i] \in 225..239 THEN Cont(2, 128, 191)
  ELSE IF s[i] = 240 THEN Cont(3, 144, 191)
  ELSE IF s[i] \in 241..243 THEN Cont(3, 128, 191)
  ELSE IF s[i] = 244 THEN Cont(3, 128, 143)
  ELSE FALSE

\* String: a definite-length text string holding well-formed UTF-8.
StrOfHead(b, h) ==
  IF ~h.ok \/ h.major # 3 \/ h.ai = 31 \/ h.arg = -1 THEN Fail
  ELSE IF h.arg > Len(b) + 1 - h.pos THEN Fail
  ELSE IF IsUtf8From(SubSeq(b, h.pos, h.pos + h.arg - 1), 1)
    THEN Ok(SubSeq(b, h.pos, h.pos + h.arg - 1), h.pos + h.arg)
  ELSE Fail

DecodeStr(b, p) == StrOfHead(b, DHead(b, p))

DecodeBool(b, p) ==
  IF p >= 1 /\ p <= Len(b) /\ b[p] \in {244, 245} THEN Ok(b[p] = 245, p + 1)
  ELSE Fail

\* A map built from its decoded entries <<key, value>>: a later entry
\* replaces an earlier one with the same key.
MapOf(entries) ==
  [k \in {entries[i][1] : i \in 1..Len(entries)} |->
     LET last == CHOOSE i \in 1..Len(entries) :
                   /\ entries[i][1] = k
                   /\ \A j \in (i + 1)..Len(entries) : entries[j][1] # k
     IN entries[last][2]]

\* The head of an enum value: a definite 2-element array and a tag that
\* names a variant.  Yields the variant and the position of its payload;
\* a tag that names no variant fails.
VariantOfTag(tags, idx) ==
  IF VariantsOf(tags, idx.val) = {} THEN Fail
  ELSE Ok(CHOOSE v \in VariantsOf(tags, idx.val) : TRUE, idx.pos)

VariantAfterHead(tags, b, h) ==
  IF ~h.ok \/ h.major # 4 \/ h.ai = 31 \/ h.arg # 2 THEN Fail
  ELSE Bind(DecodeUint(b, h.pos, UintLimit),
            LAMBDA idx : VariantOfTag(tags, idx))

DecodeVariantTag(tags, b, p) == VariantAfterHead(tags, b, DHead(b, p))

\* A fieldless enum (ErrorCode, Digest): the variant named by the tag; the
\* item after the tag is skipped.
DecodeUnitEnum(tags, b, p) ==
  Bind(DecodeVariantTag(tags, b, p),
       LAMBDA t : BindPos(Skip(b, t.pos), LAMBDA q : Ok(t.val, q)))

\* One value of the named field type.
RECURSIVE DecodeAs(_, _, _)
RECURSIVE DecodeItems(_, _, _, _)
RECURSIVE DecodeIndef(_, _, _)

\* The items of an array or map after its head h (count entries of a kind
\* each), of definite or indefinite length.
ItemsAfterHead(kind, b, h, major) ==
  IF ~h.ok \/ h.major # major \/ h.arg = -1 THEN Fail
  ELSE IF h.ai = 31 THEN DecodeIndef(kind, b, h.pos)
  ELSE DecodeItems(kind, b, h.pos, h.arg)

\* Vec<T>: an array of items of a kind.
DecodeArray(kind, b, p) == ItemsAfterHead(kind, b, DHead(b, p), 4)

DecodeAs(kind, b, p) ==
  CASE kind = "u8" -> DecodeUint(b, p, 255)
    [] kind = "u16" -> DecodeUint(b, p, 65535)
    [] kind = "u64" -> DecodeUint(b, p, UintLimit)
    [] kind = "bool" -> DecodeBool(b, p)
    [] kind = "str" -> DecodeStr(b, p)
    [] kind = "digest" -> DecodeUnitEnum(DigestTag, b, p)
    [] kind = "errorcode" -> DecodeUnitEnum(ErrorCodeTag, b, p)
    [] kind \in {"vec_u8", "vec_vec_u8", "set_u16", "opt_vec_u8"} ->
         IF kind = "opt_vec_u8" /\ p >= 1 /\ p <= Len(b) /\ b[p] = 246
           THEN Ok(<<>>, p + 1)
         ELSE Bind(DecodeArray(CASE kind = "vec_vec_u8" -> "vec_u8"
                                 [] kind = "set_u16" -> "u16"
                                 [] OTHER -> "u8", b, p),
                   LAMBDA r : Ok(CASE kind = "set_u16" -> Range(r.val)
                                   [] kind = "opt_vec_u8" -> <<r.val>>
                                   [] OTHER -> r.val, r.pos))
    [] kind = "entry" ->
         Bind(DecodeUint(b, p, UintLimit),
              LAMBDA k : Bind(DecodeItems("vec_u8", b, k.pos, 1),
                              LAMBDA v : Ok(<<k.val, v.val[1]>>, v.pos)))
    [] kind = "map_usize_vec_u8" ->
         Bind(ItemsAfterHead("entry", b, DHead(b, p), 5),
              LAMBDA r : Ok(MapOf(r.val), r.pos))

\* n items of a kind, one after the other.
DecodeItems(kind, b, p, n) ==
  IF n = 0 THEN Ok(<<>>, p)
  ELSE IF n > Len(b) + 1 - p THEN Fail
  ELSE IF n = 1 THEN
    Bind(DecodeAs(kind, b, p), LAMBDA r : Ok(<<r.val>>, r.pos))
  ELSE
    Bind(DecodeItems(kind, b, p, n \div 2),
         LAMBDA first :
           Bind(DecodeItems(kind, b, first.pos, n - n \div 2),
                LAMBDA rest : Ok(first.val \o rest.val, rest.pos)))

\* Items of a kind up to the break byte of an indefinite-length container.
DecodeIndef(kind, b, p) ==
  IF p < 1 \/ p > Len(b) THEN Fail
  ELSE IF b[p] = 255 THEN Ok(<<>>, p + 1)
  ELSE
    Bind(DecodeItems(kind, b, p, 1),
         LAMBDA r :
           Bind(DecodeIndef(kind, b, r.pos),
                LAMBDA rest : Ok(r.val \o rest.val, rest.pos)))

\* The fields of a struct or variant, kinds[i] being the type of the field
\* tagged i-1.  The result holds, per field, <<>> when the array ended before
\* it and <<value>> otherwise; items past the last known tag are skipped.
\* `left` counts the items still in the array, -1 for an indefinite one.
RECURSIVE DecodeFieldsFrom(_, _, _, _, _)
DecodeFieldsFrom(kinds, b, p, left, acc) ==
  IF left = 0
    THEN Ok(acc \o [i \in 1..(Len(kinds) - Len(acc)) |-> <<>>], p)
  ELSE IF left = -1 /\ (p < 1 \/ p > Len(b)) THEN Fail
  ELSE IF left = -1 /\ b[p] = 255
    THEN Ok(acc \o [i \in 1..(Len(kinds) - Len(acc)) |-> <<>>], p + 1)
  ELSE IF Len(acc) >= Len(kinds) THEN
    IF left = -1
      THEN BindPos(Skip(b, p),
                   LAMBDA q : DecodeFieldsFrom(kinds, b, q, left, acc))
    ELSE BindPos(SkipN(b, p, left), LAMBDA q : Ok(acc, q))
  ELSE
    Bind(DecodeAs(kinds[Len(acc) + 1], b, p),
         LAMBDA r : DecodeFieldsFrom(kinds, b, r.pos,
                                     IF left = -1 THEN -1 ELSE left - 1,
                                     Append(acc, <<r.val>>)))

FieldsAfterHead(kinds, b, h) ==
  IF ~h.ok \/ h.major # 4 \/ h.arg = -1 THEN Fail
  ELSE DecodeFieldsFrom(kinds, b, h.pos,
                        IF h.ai = 31 THEN -1 ELSE h.arg, <<>>)

DecodeFields(kinds, b, p) == FieldsAfterHead(kinds, b, DHead(b, p))

\* A required field is missing when the array ended before it; an Option
\* field is then None.
Missing(fields, required) == \E i \in required : fields[i] = <<>>

OptField(fields, i) == IF fields[i] = <<>> THEN <<>> ELSE fields[i][1]

\* The field types of each variant, in tag order.
RequestFields ==
  [DescribePCR |-> <<"u16">>, ExtendPCR |-> <<"u16", "vec_u8">>,
   LockPCR |-> <<"u16">>, LockPCRs |-> <<"u16">>, DescribeNSM |-> <<>>,
   Attestation |-> <<"opt_vec_u8", "opt_vec_u8", "opt_vec_u8">>,
   GetRandom |-> <<>>]

ResponseFields ==
  [DescribePCR |-> <<"bool", "vec_u8">>, ExtendPCR |-> <<"vec_u8">>,
   LockPCR |-> <<>>, LockPCRs |-> <<>>,
   DescribeNSM |-> <<"u16", "u16", "u16", "str", "u16", "set_u16", "digest">>,
   Attestation |-> <<"vec_u8">>, GetRandom |-> <<"vec_u8">>,
   Error |-> <<"errorcode">>]

\* The payload of a variant: skipped for a unit variant, else its fields,
\* all required unless the kind is an Option.
DecodePayload(kinds, b, p) ==
  IF kinds = <<>> THEN BindPos(Skip(b, p), LAMBDA q : Ok(<<>>, q))
  ELSE Bind(DecodeFields(kinds, b, p),
            LAMBDA f :
              IF Missing(f.val, {i \in 1..Len(kinds) : kinds[i] # "opt_vec_u8"})
                THEN Fail
              ELSE f)

\* The Request of variant v with decoded fields f.
RequestOf(v, f) ==
  CASE v \in {"DescribePCR", "LockPCR"} -> [variant |-> v, index |-> f[1][1]]
    [] v = "ExtendPCR" ->
         [variant |-> v, index |-> f[1][1], data |-> f[2][1]]
    [] v = "LockPCRs" -> [variant |-> v, range |-> f[1][1]]
    [] v = "Attestation" ->
         [variant |-> v, user_data |-> OptField(f, 1),
          nonce |-> OptField(f, 2), public_key |-> OptField(f, 3)]
    [] OTHER -> [variant |-> v]

\* Decode for Request (the mirror decoder of the request schema).
DecodeRequest(b, p) ==
  Bind(DecodeVariantTag(RequestTag, b, p),
       LAMBDA t : Bind(DecodePayload(RequestFields[t.val], b, t.pos),
                       LAMBDA f : Ok(RequestOf(t.val, f.val), f.pos)))

\* The Response of variant v with decoded fields f.
ResponseOf(v, f) ==
  CASE v = "DescribePCR" -> [variant |-> v, lock |-> f[1][1], data |-> f[2][1]]
    [] v = "ExtendPCR" -> [variant |-> v, data |-> f[1][1]]
    [] v = "DescribeNSM" ->
         [variant |-> v, version_major |-> f[1][1],
          version_minor |-> f[2][1], version_patch |-> f[3][1],
          module_id |-> f[4][1], max_pcrs |-> f[5][1],
          locked_pcrs |-> f[6][1], digest |-> f[7][1]]
    [] v = "Attestation" -> [variant |-> v, document |-> f[1][1]]
    [] v = "GetRandom" -> [variant |-> v, random |-> f[1][1]]
    [] v = "Error" -> [variant |-> v, code |-> f[1][1]]
    [] OTHER -> [variant |-> v]

\* Decode for Response.
DecodeResponse(b, p) ==
  Bind(DecodeVariantTag(ResponseTag, b, p),
       LAMBDA t : Bind(DecodePayload(ResponseFields[t.val], b, t.pos),
                       LAMBDA f : Ok(ResponseOf(t.val, f.val), f.pos)))

AttestationDocFields ==
  <<"str", "digest", "u64", "map_usize_vec_u8", "vec_u8", "vec_vec_u8",
    "opt_vec_u8", "opt_vec_u8", "opt_vec_u8">>

\* The AttestationDoc with decoded fields f.
AttestationDocOf(f) ==
  [module_id |-> f[1][1], digest |-> f[2][1], timestamp |-> f[3][1],
   pcrs |-> f[4][1], certificate |-> f[5][1], cabundle |-> f[6][1],
   public_key |-> OptField(f, 7), user_data |-> OptField(f, 8),
   nonce |-> OptField(f, 9)]

\* Variant of DocResult that unwraps the decoder's result.
DocResult_Unwrap(f) ==
  IF ~f.ok \/ Missing(f.val, 1..6) THEN [ok |-> FALSE, err |-> "panicked"]
  ELSE [ok |-> TRUE, doc |-> AttestationDocOf(f.val)]

DocResult(f) ==
  IF ~f.ok \/ Missing(f.val, 1..6) THEN [ok |-> FALSE, err |-> "CborDecode"]
  ELSE [ok |-> TRUE, doc |-> AttestationDocOf(f.val)]

\* AttestationDoc::from_binary: one document at the start of the bytes
\* (bytes after it are not looked at), or the decode error.
from_binary(bin) == DocResult(DecodeFields(AttestationDocFields, bin, 1))

(***************************************************************************)
(* Constants of the driver and bounds of the model                         *)
(***************************************************************************)

NSM_REQUEST_MAX_SIZE == 4096

NSM_RESPONSE_MAX_SIZE == 12288

\* Descriptors the process can have open on the device at once.
MaxOpen == 2

Fds == 3..(2 + MaxOpen)

\* The caller threads of the process.
Threads == {"t1", "t2"}

NoRequest == [variant |-> "none"]

NoResponse == [variant |-> "none"]

NoPeer == [kind |-> "none", val |-> NoResponse]

(***************************************************************************)
(* Inputs                                                                  *)
(***************************************************************************)

\* vec![v; n]
Rep(v, n) == [i \in 1..n |-> v]

\* The handle values a caller passes: the failure sentinel and every
\* descriptor nsm_init can return.
FdArgs == {-1} \cup Fds

\* A data length whose ExtendPCR request encodes to exactly the maximum
\* request size when followed by one small byte: 4 bytes of variant and
\* field-array heads and index, 3 of array head, 2 per byte of 24 or more.
FitLen == (NSM_REQUEST_MAX_SIZE - 8) \div 2

Requests ==
  { [variant |-> "DescribePCR", index |-> 5],
    [variant |-> "ExtendPCR", index |-> 16, data |-> <<1, 2, 3, 4>>],
    [variant |-> "ExtendPCR", index |-> 16, data |-> Rep(128, FitLen) \o <<1>>],
    [variant |-> "ExtendPCR", index |-> 16, data |-> Rep(128, FitLen + 1)],
    [variant |-> "LockPCR", index |-> 300],
    [variant |-> "LockPCRs", range |-> 16],
    [variant |-> "DescribeNSM"],
    [variant |-> "Attestation", user_data |-> <<>>, nonce |-> <<>>,
     public_key |-> <<>>],
    [variant |-> "Attestation", user_data |-> <<>>, nonce |-> <<<<7, 200>>>>,
     public_key |-> <<>>],
    [variant |-> "Attestation", user_data |-> <<Rep(128, 1024)>>,
     nonce |-> <<>>, public_key |-> <<Rep(9, 40)>>],
    [variant |-> "GetRandom"] }

\* What the module answers to DescribeNSM.
NsmDescription ==
  [variant |-> "DescribeNSM", version_major |-> 1, version_minor |-> 0,
   version_patch |-> 300, module_id |-> <<105, 45, 48>>, max_pcrs |-> 32,
   locked_pcrs |-> 0..15, digest |-> "SHA384"]

\* get_pcr_len: the length of a PCR in bytes, from the digest of the
\* description.
get_pcr_len(description) ==
  CASE description.digest = "SHA256" -> 32
    [] description.digest = "SHA384" -> 48
    [] description.digest = "SHA512" -> 64

\* Responses a peer sends.  The library is handed whatever the peer wrote:
\* register data of the digest's length, and register data of another.
PeerResponses ==
  { [variant |-> "DescribePCR", lock |-> TRUE,
     data |-> Rep(0, get_pcr_len(NsmDescription))],
    [variant |-> "DescribePCR", lock |-> FALSE, data |-> <<1, 2, 3>>],
    [variant |-> "ExtendPCR", data |-> Rep(171, 48)],
    [variant |-> "LockPCR"],
    [variant |-> "LockPCRs"],
    NsmDescription,
    [variant |-> "Attestation", document |-> Rep(7, 300)],
    [variant |-> "GetRandom", random |-> <<1, 2, 255>>] }
  \cup {ErrorResponse(c) : c \in {"Success", "InvalidIndex", "ReadOnlyIndex",
                                  "InputTooLarge", "InternalError"}}

\* Cut-off forms of an encoding: strict prefixes.
Truncations(bytes) ==
  {SubSeq(bytes, 1, k) : k \in {0, 1, Len(bytes) \div 2, Len(bytes) - 1}}

\* Damaged forms of an encoding: a break byte or a map head where the
\* variant array starts, a negative integer where the variant tag is.
Corruptions(bytes) ==
  { [bytes EXCEPT ![1] = 255], [bytes EXCEPT ![1] = 162],
    [bytes EXCEPT ![2] = 32] }

\* Well-formed values of a later schema: Response variants 8 and 24, and an
\* Error whose code is 9.
UnknownTagged ==
  { EncodeVariant(8, 0, <<>>), EncodeVariant(24, 1, EncodeUint(1)),
    EncodeVariant(ResponseTag["Error"], 1, EncodeVariant(9, 0, <<>>)) }

\* The errno values a failed device-control call on the device leaves.
DeviceErrnos == {"EMSGSIZE", "EINVAL", "EFAULT"}

\* The errno values a thread can find set: those, EBADF, and none yet.
Errnos == DeviceErrnos \cup {"EBADF", "none"}

\* What the response region holds after a failed call: nothing, or a
\* response the driver had copied out before it failed.
FailedCallBytes ==
  {<<>>, EncodeResponse([variant |-> "GetRandom", random |-> <<1, 2, 255>>])}

Written(bytes, kind, val) ==
  [rc |-> 0, errno |-> "none", bytes |-> bytes,
   peer |-> [kind |-> kind, val |-> val]]

PeerOutcomes ==
  {[rc |-> -1, errno |-> e, bytes |-> b, peer |-> NoPeer] :
     e \in DeviceErrnos, b \in FailedCallBytes}
  \cup {Written(EncodeResponse(r), "canonical", r) : r \in PeerResponses}
  \cup UNION {{Written(b, "truncated", r) : b \in Truncations(EncodeResponse(r))} :
              r \in {ErrorResponse("InvalidIndex"),
                     [variant |-> "GetRandom", random |-> <<1, 2, 255>>]}}
  \cup UNION {{Written(b, "corrupted", r) : b \in Corruptions(EncodeResponse(r))} :
              r \in {ErrorResponse("InvalidIndex")}}
  \cup {Written(b, "unknown_tag", NoResponse) : b \in UnknownTagged}

\* The encodings of Requests, computed once for all exchanges.
RequestCbor == [r \in Requests |-> EncodeRequest(r)]

(***************************************************************************)
(* The driver: src/src/driver/mod.rs                                       *)
(***************************************************************************)

\* serde_cbor::to_vec(&request).unwrap(): writing into a Vec cannot fail.
nsm_encode_request_to_cbor(request) ==
  IF request \in Requests THEN RequestCbor[request] ELSE EncodeRequest(request)

\* Variant of WholeSlice that reports a decode failure as InvalidResponse.
WholeSlice_InvalidResponse(response_data, r) ==
  IF r.ok /\ r.pos = Len(response_data) + 1 THEN r.val
  ELSE ErrorResponse("InvalidResponse")

\* Variant of WholeSlice that reports every error of the peer as
\* InternalError.
WholeSlice_ErrorsCollapsed(response_data, r) ==
  IF r.ok /\ r.pos = Len(response_data) + 1 /\ r.val.variant # "Error" THEN r.val
  ELSE ErrorResponse("InternalError")

\* Variant of WholeSlice that copies register data through a 32-byte buffer.
WholeSlice_DataClipped(response_data, r) ==
  IF r.ok /\ r.pos = Len(response_data) + 1
    THEN IF r.val.variant \in {"DescribePCR", "ExtendPCR"}
           THEN [r.val EXCEPT !.data =
                   SubSeq(r.val.data, 1,
                          IF Len(r.val.data) < 32 THEN Len(r.val.data) ELSE 32)]
         ELSE r.val
  ELSE ErrorResponse("InternalError")

\* from_slice parses exactly one Response out of the whole slice: bytes left
\* after the value are a decode error like any other.
WholeSlice(response_data, r) ==
  IF r.ok /\ r.pos = Len(response_data) + 1 THEN r.val
  ELSE ErrorResponse("InternalError")

nsm_decode_response_from_cbor(response_data) ==
  WholeSlice(response_data, DecodeResponse(response_data, 1))

\* nsm_ioctl's result from the return code of ioctl() and the errno read
\* after it: None (<<>>) for 0, Some(errno) for anything else.
nsm_ioctl(rc, errno_last) == IF rc = 0 THEN <<>> ELSE <<errno_last>>

\* Variant of the size check that compares with the response limit.
RequestTooLarge_ResponseLimit(cbor_request) ==
  Len(cbor_request) > NSM_RESPONSE_MAX_SIZE

\* Variant of the size check that also turns away a request of exactly the
\* limit.
RequestTooLarge_AtLimit(cbor_request) ==
  Len(cbor_request) >= NSM_REQUEST_MAX_SIZE

\* The size check of nsm_process_request.
RequestTooLarge(cbor_request) == Len(cbor_request) > NSM_REQUEST_MAX_SIZE

\* Variant of the final match without the EMSGSIZE arm.
MatchStatus_NoMsgSizeArm(status, response) ==
  IF status = <<>> THEN nsm_decode_response_from_cbor(response)
  ELSE ErrorResponse("InternalError")

\* Variant of the final match that translates EINVAL for the caller.
MatchStatus_ErrnoTranslated(status, response) ==
  IF status = <<>> THEN nsm_decode_response_from_cbor(response)
  ELSE IF status[1] = "EMSGSIZE" THEN ErrorResponse("InputTooLarge")
  ELSE IF status[1] = "EINVAL" THEN ErrorResponse("InvalidArgument")
  ELSE ErrorResponse("InternalError")

\* Variant of the final match whose last arm leaves the error code unset.
MatchStatus_CodeUnset(status, response) ==
  IF status = <<>> THEN nsm_decode_response_from_cbor(response)
  ELSE IF status[1] = "EMSGSIZE" THEN ErrorResponse("InputTooLarge")
  ELSE [variant |-> "Error"]

\* Variant of the final match that decodes whatever the buffer holds and
\* looks at the status only when the buffer is empty.
MatchStatus_BufferFirst(status, response) ==
  IF status = <<>> \/ response # <<>>
    THEN nsm_decode_response_from_cbor(response)
  ELSE IF status[1] = "EMSGSIZE" THEN ErrorResponse("InputTooLarge")
  ELSE ErrorResponse("InternalError")

\* The final match of nsm_process_request on the status of the call.
MatchStatus(status, response) ==
  IF status = <<>> THEN nsm_decode_response_from_cbor(response)
  ELSE IF status[1] = "EMSGSIZE" THEN ErrorResponse("InputTooLarge")
  ELSE ErrorResponse("InternalError")

(***************************************************************************)
(* State                                                                   *)
(***************************************************************************)

VARIABLES
  fd_table,   \* the descriptors currently open on /dev/nsm
  call,       \* per thread: the library call it is in or made last
  codec,      \* a value taken through the codec, for the codec's own laws
  in_ioctl    \* the device-control calls in progress, in the order issued

vars == <<fd_table, call, codec, in_ioctl>>

\* A thread that has made no call yet.  The fields of a call:
\*   op            "none", "nsm_init", "nsm_exit" or "nsm_process_request"
\*   pc            "ioctl" while blocked in the device-control call of an
\*                 exchange, else "done"
\*   fd            the handle passed (nsm_exit, nsm_process_request) or the
\*                 descriptor opened (nsm_init; -1 when the open failed)
\*   ok            whether the open or the close succeeded
\*   handle        the value nsm_init returned
\*   log           the level of the message nsm_init or nsm_exit logged:
\*                 "debug" for a success, "error" for a failure
\*   request, cbor_request   the request and its encoding
\*   ioctl_calls   device-control calls made by this exchange so far
\*   sent, capacity  the input region and output capacity of the NsmMessage
\*   on_device     whether the call reached the device (fd was open on it)
\*   rc, err       ioctl()'s return code and the errno it set ("none" when
\*                 it succeeded)
\*   status        nsm_ioctl's result
\*   response      message.response after the call: the bytes the peer wrote
\*   peer          what the peer meant to send
\*   ret           the Response returned to the caller
\*   overlap       the other threads that were blocked in a call on the same
\*                 handle when this exchange returned (kept for the
\*                 properties only; the library has no such record)
NoCall ==
  [op |-> "none", pc |-> "done", fd |-> -1, ok |-> FALSE, handle |-> 0,
   log |-> "none",
   request |-> NoRequest, cbor_request |-> <<>>, ioctl_calls |-> 0,
   sent |-> <<>>, capacity |-> 0, on_device |-> FALSE, rc |-> 0,
   err |-> "none", status |-> <<>>, response |-> <<>>, peer |-> NoPeer, ret |-> NoResponse,
   overlap |-> {}]

NoCodec == [pc |-> "off"]

\* The calls in progress once the oldest call of thread t has returned.
Returning(calls, t) ==
  LET mine == {i \in 1..Len(calls) : calls[i].thread = t}
      first == Min(mine)
  IN IF mine = {} THEN calls
     ELSE SubSeq(calls, 1, first - 1) \o SubSeq(calls, first + 1, Len(calls))

\* The threads other than t blocked in a device-control call on fd.
InProgressWith(calls, t, fd) ==
  {calls[i].thread : i \in {k \in 1..Len(calls) :
                              calls[k].thread # t /\ calls[k].fd = fd}}

DriverInit ==
  /\ fd_table = {}
  /\ in_ioctl = <<>>
  /\ call = [t \in Threads |-> NoCall]

Init == DriverInit /\ codec = NoCodec

(***************************************************************************)
(* Operations                                                              *)
(***************************************************************************)

\* Variant of nsm_init that returns 0 when the open fails.
nsm_init_ZeroOnFailure(t) ==
  /\ call[t].pc = "done"
  /\ \/ /\ Fds \ fd_table # {}
        /\ LET open_dev == Min(Fds \ fd_table) IN
           /\ fd_table' = fd_table \cup {open_dev}
           /\ call' = [call EXCEPT ![t] =
                [NoCall EXCEPT !.op = "nsm_init", !.fd = open_dev,
                               !.ok = TRUE, !.handle = open_dev,
                               !.log = "debug"]]
     \/ /\ call' = [call EXCEPT ![t] =
             [NoCall EXCEPT !.op = "nsm_init", !.handle = 0,
                            !.log = "error"]]
        /\ UNCHANGED fd_table
  /\ UNCHANGED <<codec, in_ioctl>>

\* nsm_init: open /dev/nsm read-write.  The open may fail (no device, no
\* free descriptor); when it succeeds the file's descriptor, the lowest one
\* free, is returned, else -1.
nsm_init(t) ==
  /\ call[t].pc = "done"
  /\ \/ /\ Fds \ fd_table # {}
        /\ LET open_dev == Min(Fds \ fd_table) IN
           /\ fd_table' = fd_table \cup {open_dev}
           /\ call' = [call EXCEPT ![t] =
                [NoCall EXCEPT !.op = "nsm_init", !.fd = open_dev,
                               !.ok = TRUE, !.handle = open_dev,
                               !.log = "debug"]]
     \/ /\ call' = [call EXCEPT ![t] =
             [NoCall EXCEPT !.op = "nsm_init", !.handle = -1,
                            !.log = "error"]]
        /\ UNCHANGED fd_table
  /\ UNCHANGED <<codec, in_ioctl>>

\* Variant of nsm_exit that unwraps the result of close().
nsm_exit_Unwrap(t, fd) ==
  /\ call[t].pc = "done"
  /\ call' = [call EXCEPT ![t] =
       IF fd \in fd_table
         THEN [NoCall EXCEPT !.op = "nsm_exit", !.fd = fd, !.ok = TRUE,
                             !.log = "debug"]
       ELSE [NoCall EXCEPT !.op = "nsm_exit", !.fd = fd, !.pc = "panicked"]]
  /\ fd_table' = fd_table \ {fd}
  /\ UNCHANGED <<codec, in_ioctl>>

\* Variant of nsm_exit that treats the device as one process-wide handle and
\* closes every descriptor open on it.
nsm_exit_CloseAll(t, fd) ==
  /\ call[t].pc = "done"
  /\ call' = [call EXCEPT ![t] =
       [NoCall EXCEPT !.op = "nsm_exit", !.fd = fd, !.ok = fd \in fd_table,
                      !.log = IF fd \in fd_table THEN "debug" ELSE "error"]]
  /\ fd_table' = IF fd \in fd_table THEN {} ELSE fd_table
  /\ UNCHANGED <<codec, in_ioctl>>

\* nsm_exit(fd): close the descriptor; close() fails (EBADF) on a descriptor
\* that is not open.  The outcome is logged, as a debug message or as an
\* error, and the function returns.
nsm_exit(t, fd) ==
  /\ call[t].pc = "done"
  /\ call' = [call EXCEPT ![t] =
       [NoCall EXCEPT !.op = "nsm_exit", !.fd = fd, !.ok = fd \in fd_table,
                      !.log = IF fd \in fd_table THEN "debug" ELSE "error"]]
  /\ fd_table' = fd_table \ {fd}
  /\ UNCHANGED <<codec, in_ioctl>>

\* Variant of the first half of nsm_process_request that encodes into a
\* buffer kept from the thread's previous call.
ProcessRequestCall_BufferKept(t, fd, request) ==
  /\ call[t].pc = "done"
  /\ LET cbor_request == call[t].sent \o nsm_encode_request_to_cbor(request)
         started == [NoCall EXCEPT !.op = "nsm_process_request", !.fd = fd,
                                   !.request = request,
                                   !.cbor_request = cbor_request]
     IN
     /\ call' = [call EXCEPT ![t] =
          IF RequestTooLarge(cbor_request)
            THEN [started EXCEPT !.ret = ErrorResponse("InputTooLarge")]
          ELSE [started EXCEPT !.pc = "ioctl",
                               !.ioctl_calls = 1,
                               !.sent = cbor_request,
                               !.capacity = NSM_RESPONSE_MAX_SIZE,
                               !.on_device = fd \in fd_table]]
     /\ in_ioctl' = IF RequestTooLarge(cbor_request) THEN in_ioctl
                    ELSE Append(in_ioctl, [thread |-> t, fd |-> fd])
  /\ UNCHANGED <<fd_table, codec>>

\* Variant of the first half of nsm_process_request that submits the call
\* without waiting for the one before it.
ProcessRequestCall_NoWait(t, fd, request) ==
  /\ LET cbor_request == nsm_encode_request_to_cbor(request)
         started == [NoCall EXCEPT !.op = "nsm_process_request", !.fd = fd,
                                   !.request = request,
                                   !.cbor_request = cbor_request]
     IN
     /\ call' = [call EXCEPT ![t] =
          IF RequestTooLarge(cbor_request)
            THEN [started EXCEPT !.ret = ErrorResponse("InputTooLarge")]
          ELSE [started EXCEPT !.pc = "ioctl",
                               !.ioctl_calls = 1,
                               !.sent = cbor_request,
                               !.capacity = NSM_RESPONSE_MAX_SIZE,
                               !.on_device = fd \in fd_table]]
     /\ in_ioctl' = IF RequestTooLarge(cbor_request) THEN in_ioctl
                    ELSE Append(in_ioctl, [thread |-> t, fd |-> fd])
  /\ UNCHANGED <<fd_table, codec>>

\* Variant of the first half of nsm_process_request that takes a
\* process-wide lock around the device-control call.
ProcessRequestCall_Locked(t, fd, request) ==
  /\ call[t].pc = "done"
  /\ \A u \in Threads : call[u].pc # "ioctl"
  /\ LET cbor_request == nsm_encode_request_to_cbor(request)
         started == [NoCall EXCEPT !.op = "nsm_process_request", !.fd = fd,
                                   !.request = request,
                                   !.cbor_request = cbor_request]
     IN
     /\ call' = [call EXCEPT ![t] =
          IF RequestTooLarge(cbor_request)
            THEN [started EXCEPT !.ret = ErrorResponse("InputTooLarge")]
          ELSE [started EXCEPT !.pc = "ioctl",
                               !.ioctl_calls = 1,
                               !.sent = cbor_request,
                               !.capacity = NSM_RESPONSE_MAX_SIZE,
                               !.on_device = fd \in fd_table]]
     /\ in_ioctl' = IF RequestTooLarge(cbor_request) THEN in_ioctl
                    ELSE Append(in_ioctl, [thread |-> t, fd |-> fd])
  /\ UNCHANGED <<fd_table, codec>>

\* Variant of the first half of nsm_process_request that reserves the
\* response buffer by the kind of request.
ProcessRequestCall_SizedBuffer(t, fd, request) ==
  /\ call[t].pc = "done"
  /\ LET cbor_request == nsm_encode_request_to_cbor(request)
         started == [NoCall EXCEPT !.op = "nsm_process_request", !.fd = fd,
                                   !.request = request,
                                   !.cbor_request = cbor_request]
     IN
     /\ call' = [call EXCEPT ![t] =
          IF RequestTooLarge(cbor_request)
            THEN [started EXCEPT !.ret = ErrorResponse("InputTooLarge")]
          ELSE [started EXCEPT !.pc = "ioctl",
                               !.ioctl_calls = 1,
                               !.sent = cbor_request,
                               !.capacity = IF request.variant = "Attestation"
                                              THEN NSM_RESPONSE_MAX_SIZE
                                            ELSE NSM_REQUEST_MAX_SIZE,
                               !.on_device = fd \in fd_table]]
     /\ in_ioctl' = IF RequestTooLarge(cbor_request) THEN in_ioctl
                    ELSE Append(in_ioctl, [thread |-> t, fd |-> fd])
  /\ UNCHANGED <<fd_table, codec>>

\* Variant of the first part of nsm_process_request that remembers which
\* handles are open and answers for any other without calling the device.
ProcessRequestCall_HandleChecked(t, fd, request) ==
  /\ call[t].pc = "done"
  /\ LET cbor_request == nsm_encode_request_to_cbor(request)
         started == [NoCall EXCEPT !.op = "nsm_process_request", !.fd = fd,
                                   !.request = request,
                                   !.cbor_request = cbor_request]
     IN
     /\ call' = [call EXCEPT ![t] =
          IF RequestTooLarge(cbor_request)
            THEN [started EXCEPT !.ret = ErrorResponse("InputTooLarge")]
          ELSE IF fd \notin fd_table
            THEN [started EXCEPT !.ret = ErrorResponse("InternalError")]
          ELSE [started EXCEPT !.pc = "ioctl",
                               !.ioctl_calls = 1,
                               !.sent = cbor_request,
                               !.capacity = NSM_RESPONSE_MAX_SIZE,
                               !.on_device = TRUE]]
     /\ in_ioctl' = IF RequestTooLarge(cbor_request) \/ fd \notin fd_table
                      THEN in_ioctl
                    ELSE Append(in_ioctl, [thread |-> t, fd |-> fd])
  /\ UNCHANGED <<fd_table, codec>>

\* nsm_process_request up to the point where the thread blocks in ioctl():
\* encode, check the size, build the message and issue the call.  An
\* oversized request returns at once.
ProcessRequestCall(t, fd, request) ==
  /\ call[t].pc = "done"
  /\ LET cbor_request == nsm_encode_request_to_cbor(request)
         started == [NoCall EXCEPT !.op = "nsm_process_request", !.fd = fd,
                                   !.request = request,
                                   !.cbor_request = cbor_request]
     IN
     /\ call' = [call EXCEPT ![t] =
          IF RequestTooLarge(cbor_request)
            THEN [started EXCEPT !.ret = ErrorResponse("InputTooLarge")]
          ELSE [started EXCEPT !.pc = "ioctl",
                               !.ioctl_calls = 1,
                               !.sent = cbor_request,
                               !.capacity = NSM_RESPONSE_MAX_SIZE,
                               !.on_device = fd \in fd_table]]
     /\ in_ioctl' = IF RequestTooLarge(cbor_request) THEN in_ioctl
                    ELSE Append(in_ioctl, [thread |-> t, fd |-> fd])
  /\ UNCHANGED <<fd_table, codec>>

\* Variant of the rest of nsm_process_request that issues the call again
\* when it failed.
ProcessRequestReturn_Retry(t, o, stale) ==
  LET c == call[t]
      out == IF c.on_device THEN o
             ELSE [rc |-> -1, errno |-> "EBADF", bytes |-> <<>>, peer |-> NoPeer]
      errno_last == IF out.rc = 0 THEN stale ELSE out.errno
      status == nsm_ioctl(out.rc, errno_last)
  IN
  /\ c.pc = "ioctl"
  /\ Len(out.bytes) <= c.capacity
  /\ call' = [call EXCEPT ![t] =
       IF status # <<>> /\ c.ioctl_calls < 2
         THEN [c EXCEPT !.ioctl_calls = c.ioctl_calls + 1]
       ELSE [c EXCEPT !.pc = "done", !.rc = out.rc, !.err = out.errno,
                      !.status = status,
                      !.response = out.bytes, !.peer = out.peer,
                      !.ret = MatchStatus(status, out.bytes)]]
  /\ in_ioctl' = IF status # <<>> /\ c.ioctl_calls < 2 THEN in_ioctl
                 ELSE Returning(in_ioctl, t)
  /\ UNCHANGED <<fd_table, codec>>

\* Variant of the rest of nsm_process_request that closes the descriptor
\* when the call failed.
ProcessRequestReturn_CloseOnError(t, o, stale) ==
  LET c == call[t]
      out == IF c.on_device THEN o
             ELSE [rc |-> -1, errno |-> "EBADF", bytes |-> <<>>, peer |-> NoPeer]
      errno_last == IF out.rc = 0 THEN stale ELSE out.errno
      status == nsm_ioctl(out.rc, errno_last)
  IN
  /\ c.pc = "ioctl"
  /\ Len(out.bytes) <= c.capacity
  /\ call' = [call EXCEPT ![t] =
       [c EXCEPT !.pc = "done", !.rc = out.rc, !.err = out.errno,
                 !.status = status,
                 !.response = out.bytes, !.peer = out.peer,
                 !.ret = MatchStatus(status, out.bytes)]]
  /\ in_ioctl' = Returning(in_ioctl, t)
  /\ fd_table' = IF status = <<>> THEN fd_table ELSE fd_table \ {c.fd}
  /\ UNCHANGED codec

\* Variant of the rest of nsm_process_request in which the response buffer
\* is one static array shared by all exchanges: while another thread is
\* blocked in a call on the same handle, the bytes decoded are those written
\* for that thread.
ProcessRequestReturn_SharedBuffer(t, o, stale) ==
  LET c == call[t]
      out == IF c.on_device THEN o
             ELSE [rc |-> -1, errno |-> "EBADF", bytes |-> <<>>, peer |-> NoPeer]
      errno_last == IF out.rc = 0 THEN stale ELSE out.errno
      status == nsm_ioctl(out.rc, errno_last)
      buffer == IF InProgressWith(in_ioctl, t, c.fd) = {} THEN out.bytes
                ELSE (CHOOSE x \in PeerOutcomes :
                        x.rc = 0 /\ x.peer.kind = "canonical"
                        /\ x.bytes # out.bytes).bytes
  IN
  /\ c.pc = "ioctl"
  /\ Len(out.bytes) <= c.capacity
  /\ call' = [call EXCEPT ![t] =
       [c EXCEPT !.pc = "done", !.rc = out.rc, !.err = out.errno,
                 !.status = status,
                 !.response = buffer, !.peer = out.peer,
                 !.ret = MatchStatus(status, buffer),
                 !.overlap = InProgressWith(in_ioctl, t, c.fd)]]
  /\ in_ioctl' = Returning(in_ioctl, t)
  /\ UNCHANGED <<fd_table, codec>>

\* The rest of nsm_process_request: ioctl() returns, nsm_ioctl turns its
\* return code and the errno read after it into a status, and the status is
\* matched.  A call on a descriptor that is not open fails with EBADF;
\* otherwise the outcome o is the peer's: a failure with an errno, or bytes
\* written into the response region (no more than its capacity).  A call
\* that succeeds leaves errno as it was: `stale`.
ProcessRequestReturn(t, o, stale) ==
  LET c == call[t]
      out == IF c.on_device THEN o
             ELSE [rc |-> -1, errno |-> "EBADF", bytes |-> <<>>, peer |-> NoPeer]
      errno_last == IF out.rc = 0 THEN stale ELSE out.errno
      status == nsm_ioctl(out.rc, errno_last)
  IN
  /\ c.pc = "ioctl"
  /\ Len(out.bytes) <= c.capacity
  /\ call' = [call EXCEPT ![t] =
       [c EXCEPT !.pc = "done", !.rc = out.rc, !.err = out.errno,
                 !.status = status,
                 !.response = out.bytes, !.peer = out.peer,
                 !.ret = MatchStatus(status, out.bytes),
                 !.overlap = InProgressWith(in_ioctl, t, c.fd)]]
  /\ in_ioctl' = Returning(in_ioctl, t)
  /\ UNCHANGED <<fd_table, codec>>

(***************************************************************************)
(* Specifications                                                          *)
(***************************************************************************)

\* One caller thread using the library.
Next ==
  \E t \in {"t1"} :
    \/ nsm_init(t)
    \/ \E fd \in FdArgs : nsm_exit(t, fd)
    \/ \E fd \in FdArgs, request \in Requests : ProcessRequestCall(t, fd, request)
    \/ \E o \in PeerOutcomes, stale \in Errnos : ProcessRequestReturn(t, o, stale)

Spec == Init /\ [][Next]_vars

\* ioctl() is a blocking call that completes or fails: a thread blocked in
\* it is eventually handed its outcome.
IoctlReturns ==
  \E t \in {"t1"} :
    \E o \in PeerOutcomes, stale \in Errnos : ProcessRequestReturn(t, o, stale)

SpecFair == Spec /\ WF_vars(IoctlReturns)

(***************************************************************************)
(* The codec on its own: values taken through encode, decode and encode    *)
(***************************************************************************)

\* Longest byte string drawn for a field.
MaxBytes == 2

\* Byte strings up to MaxBytes over the two bytes either side of the
\* boundary between the one-byte and the two-byte encoding of an integer.
ByteStrings == UNION {[1..n -> {23, 24}] : n \in 0..MaxBytes}

\* Option<Vec<u8>>: None is <<>>, Some(v) is <<v>>.
OptByteStrings == {<<>>} \cup {<<v>> : v \in ByteStrings}

\* Integers at the boundaries of the encoded widths.
U16Samples == {0, 23, 24, 255, 256, 65535}

U64Samples == {0, 1234, 65536}

\* AttestationDoc::new: the arguments become the fields.
AttestationDoc_new(module_id, digest, timestamp, pcrs, certificate, cabundle, user_data, nonce, public_key) ==
  [module_id |-> module_id, digest |-> digest, timestamp |-> timestamp,
   pcrs |-> pcrs, cabundle |-> cabundle, certificate |-> certificate,
   user_data |-> user_data, nonce |-> nonce, public_key |-> public_key]

PcrMaps ==
  { <<>>,
    (0 :> Rep(0, 32)) @@ (24 :> <<>>) @@ (300 :> <<1, 255>>) }

Docs ==
  { AttestationDoc_new(module_id, digest, timestamp, pcrs, certificate,
                       cabundle, user_data, nonce, public_key) :
      module_id \in {<<>>, <<97, 98, 99, 100>>},
      digest \in DOMAIN DigestTag,
      timestamp \in U64Samples,
      pcrs \in PcrMaps,
      certificate \in {<<>>, Rep(42, 10)},
      cabundle \in {<<>>, <<<<1>>, <<>>, <<30, 2>>>>},
      user_data \in {<<>>, <<<<>>>>, <<<<23, 24>>>>},
      nonce \in OptByteStrings,
      public_key \in {<<>>, <<<<>>>>, <<Rep(9, 40)>>} }

CodecRequests ==
  Requests
  \cup {[variant |-> v, index |-> i] :
          v \in {"DescribePCR", "LockPCR"}, i \in U16Samples}
  \cup {[variant |-> "LockPCRs", range |-> i] : i \in U16Samples}
  \cup {[variant |-> "ExtendPCR", index |-> i, data |-> d] :
          i \in U16Samples, d \in ByteStrings}
  \cup {[variant |-> "Attestation", user_data |-> u, nonce |-> n,
         public_key |-> k] :
          u \in OptByteStrings, n \in OptByteStrings, k \in OptByteStrings}

\* A value on its way through the codec:
\*   pc      "value", "encoded", "decoded", "reencoded"
\*   kind    "doc" or "request"
\*   value   the value
\*   bytes   its encoding
\*   back    the result of decoding bytes
\*   bytes2  the encoding of the decoded value
NoResult == [ok |-> FALSE]

CodecStart(kind, value) ==
  [pc |-> "value", kind |-> kind, value |-> value, bytes |-> <<>>,
   back |-> NoResult, bytes2 |-> <<>>]

\* The document of the unit test.
ScenarioA ==
  AttestationDoc_new(<<97, 98, 99, 100>>, "SHA256", 1234,
                     (1 :> <<1, 2, 3>>) @@ (2 :> <<4, 5, 6>>) @@ (3 :> <<7, 8, 9>>),
                     Rep(42, 10), <<>>, <<Rep(255, 10)>>, <<>>, <<>>)

\* Bytes handed to from_binary that no to_binary need have produced: every
\* prefix of an encoded document, the document with one byte replaced (by
\* 0, by the head of an indefinite-length array, by a break), the document
\* followed by more bytes or carrying a tenth field, and short strings.
Prefixes(b) == {SubSeq(b, 1, k) : k \in 0..Len(b)}

Damaged(b) == {[b EXCEPT ![i] = v] : i \in 1..Len(b), v \in {0, 159, 255}}

ArbitraryBytes ==
  Prefixes(to_binary(ScenarioA))
  \cup Damaged(to_binary(ScenarioA))
  \cup ByteStrings
  \cup { to_binary(ScenarioA) \o <<0, 255>>,
         <<138>> \o Tail(to_binary(ScenarioA)) \o <<246, 246, 24, 7>>,
         <<159, 255>>, <<128>>, <<160>>, <<246>> }

\* Bytes on their way into from_binary.
CodecBytes(bytes) ==
  [pc |-> "encoded", kind |-> "bytes", value |-> NoRequest, bytes |-> bytes,
   back |-> NoResult, bytes2 |-> <<>>]

\* Most calls of pcrs.insert made before a document is built.
MaxInserts == 3

\* The (index, value) pairs handed to pcrs.insert: indexes whose encodings
\* take one, two and three bytes.
InsertEntries == {<<k, v>> : k \in {0, 24, 300}, v \in {<<>>, <<1, 255>>}}

\* The sequences of calls of pcrs.insert: every order, repeated indexes
\* included.
InsertOrders == UNION {[1..n -> InsertEntries] : n \in 0..MaxInserts}

\* BTreeMap::insert(k, v): the value of an index already present is replaced.
BTreeMap_insert(m, k, v) ==
  [x \in DOMAIN m \cup {k} |-> IF x = k THEN v ELSE m[x]]

\* let mut pcrs = BTreeMap::new(); pcrs.insert(k, v); ... in the given order
RECURSIVE InsertAll(_, _)
InsertAll(inserts, n) ==
  IF n = 0 THEN <<>>
  ELSE BTreeMap_insert(InsertAll(inserts, n - 1), inserts[n][1], inserts[n][2])

\* A map about to be filled by the calls of pcrs.insert in `inserts`.
CodecInserts(inserts) ==
  [pc |-> "inserts", kind |-> "doc", value |-> NoRequest, inserts |-> inserts,
   bytes |-> <<>>, back |-> NoResult, bytes2 |-> <<>>]

\* The document built around the map that the calls of pcrs.insert leave.
DocOfInserts(inserts) ==
  AttestationDoc_new(<<97, 98, 99, 100>>, "SHA256", 1234,
                     InsertAll(inserts, Len(inserts)),
                     Rep(42, 10), <<>>, <<Rep(255, 10)>>, <<>>, <<>>)

CodecInit ==
  /\ DriverInit
  /\ codec \in {CodecStart("doc", d) : d \in Docs}
               \cup {CodecStart("request", r) : r \in CodecRequests}
               \cup {CodecBytes(b) : b \in ArbitraryBytes}
               \cup {CodecInserts(s) : s \in InsertOrders}

\* pcrs.insert(..) for each entry, then AttestationDoc::new(.., pcrs, ..)
DocBuild ==
  /\ codec.pc = "inserts"
  /\ codec' = [codec EXCEPT !.pc = "value",
                            !.value = DocOfInserts(codec.inserts)]
  /\ UNCHANGED <<fd_table, call, in_ioctl>>

\* doc.to_binary()
DocToBinary ==
  /\ codec.pc = "value" /\ codec.kind = "doc"
  /\ codec' = [codec EXCEPT !.pc = "encoded", !.bytes = to_binary(codec.value)]
  /\ UNCHANGED <<fd_table, call, in_ioctl>>

\* AttestationDoc::from_binary(bytes)
DocFromBinary ==
  /\ codec.pc = "encoded" /\ codec.kind \in {"doc", "bytes"}
  /\ codec' = [codec EXCEPT !.pc = "decoded", !.back = from_binary(codec.bytes)]
  /\ UNCHANGED <<fd_table, call, in_ioctl>>

\* to_binary() of the document that from_binary returned
DocToBinaryAgain ==
  /\ codec.pc = "decoded" /\ codec.kind = "doc" /\ codec.back.ok
  /\ codec' = [codec EXCEPT !.pc = "reencoded",
                            !.bytes2 = to_binary(codec.back.doc)]
  /\ UNCHANGED <<fd_table, call, in_ioctl>>

\* Encoding a Request (nsm_encode_request_to_cbor)
RequestEncode ==
  /\ codec.pc = "value" /\ codec.kind = "request"
  /\ codec' = [codec EXCEPT !.pc = "encoded",
                            !.bytes = nsm_encode_request_to_cbor(codec.value)]
  /\ UNCHANGED <<fd_table, call, in_ioctl>>

\* Decoding the bytes of a Request with the derived decoder
RequestDecode ==
  /\ codec.pc = "encoded" /\ codec.kind = "request"
  /\ codec' = [codec EXCEPT !.pc = "decoded",
                            !.back = DecodeRequest(codec.bytes, 1)]
  /\ UNCHANGED <<fd_table, call, in_ioctl>>

CodecNext ==
  \/ DocBuild
  \/ DocToBinary
  \/ DocFromBinary
  \/ DocToBinaryAgain
  \/ RequestEncode
  \/ RequestDecode

SpecCodec == CodecInit /\ [][CodecNext]_vars

(***************************************************************************)
(* Properties of the codec                                                 *)
(***************************************************************************)

\* The entries of the pcrs map as they lie in the bytes of a document: the
\* fourth item of the array, after module_id, digest and timestamp.
PcrsOnWire(bytes) ==
  ItemsAfterHead("entry", bytes,
                 DHead(bytes, Skip(bytes, Skip(bytes, Skip(bytes, 2)))), 5)

\* The indexes inserted, and the value the last insert of an index gave it.
InsertedKeys(inserts) == {inserts[i][1] : i \in 1..Len(inserts)}

LastInserted(inserts, k) ==
  inserts[CHOOSE i \in 1..Len(inserts) :
            /\ inserts[i][1] = k
            /\ \A j \in (i + 1)..Len(inserts) : inserts[j][1] # k][2]

\* Two sequences of inserts that leave the same register contents.
SameContents(a, b) ==
  /\ InsertedKeys(a) = InsertedKeys(b)
  /\ \A k \in InsertedKeys(a) : LastInserted(a, k) = LastInserted(b, k)

\* The run was started from calls of pcrs.insert and has been encoded.
EncodedFromInserts ==
  /\ "inserts" \in DOMAIN codec
  /\ codec.pc \in {"encoded", "decoded", "reencoded"}

\* C21: in the bytes of a document the pcrs keys are strictly ascending
\* (so no key occurs twice), they are the indexes that were inserted, each
\* with the value last inserted for it, and every other order of inserts
\* that leaves the same register contents encodes to the same bytes.
C21_PcrsEncodeInKeyOrder ==
  EncodedFromInserts =>
    /\ PcrsOnWire(codec.bytes).ok
    /\ \A i, j \in 1..Len(PcrsOnWire(codec.bytes).val) :
         i < j => PcrsOnWire(codec.bytes).val[i][1]
                    < PcrsOnWire(codec.bytes).val[j][1]
    /\ {e[1] : e \in Range(PcrsOnWire(codec.bytes).val)}
         = InsertedKeys(codec.inserts)
    /\ \A e \in Range(PcrsOnWire(codec.bytes).val) :
         e[2] = LastInserted(codec.inserts, e[1])
    /\ \A other \in InsertOrders :
         SameContents(other, codec.inserts)
           => to_binary(DocOfInserts(other)) = codec.bytes

\* A document whose registers were inserted out of key order, the first
\* index inserted once more with another value, has been encoded.
C21_Witness ==
  /\ EncodedFromInserts
  /\ Len(codec.inserts) = 3
  /\ codec.inserts[1][1] > codec.inserts[2][1]
  /\ codec.inserts[3][1] = codec.inserts[1][1]
  /\ codec.inserts[3][2] # codec.inserts[1][2]

\* C7: decoding the bytes to_binary produced for an AttestationDoc gives a
\* document equal to the original in all nine fields, and encoding that
\* document gives the same bytes again.
C7_AttestationDocRoundTrip ==
  codec.pc \in {"decoded", "reencoded"} /\ codec.kind = "doc" =>
    /\ codec.back.ok
    /\ codec.back.doc = codec.value
    /\ \A f \in {"module_id", "digest", "timestamp", "pcrs", "certificate",
                 "cabundle", "public_key", "user_data", "nonce"} :
         codec.back.doc[f] = codec.value[f]
    /\ codec.pc = "reencoded" => codec.bytes2 = codec.bytes

C7_Witness ==
  /\ codec.pc = "reencoded" /\ codec.kind = "doc"
  /\ codec.value.public_key = <<>>
  /\ codec.value.user_data = <<<<23, 24>>>>
  /\ codec.value.nonce = <<>>
  /\ DOMAIN codec.value.pcrs = {0, 24, 300}
  /\ codec.bytes2 = codec.bytes
  /\ codec.back.doc = codec.value

\* C8: every Request, of every variant and with every combination of present
\* and absent optional fields, encodes to bytes, and the derived decoder
\* reads exactly those bytes back as a request equal to the original.
C8_RequestRoundTrip ==
  /\ codec.pc = "encoded" /\ codec.kind = "request" => Len(codec.bytes) >= 3
  /\ codec.pc = "decoded" /\ codec.kind = "request" =>
       /\ codec.back.ok
       /\ codec.back.val = codec.value
       /\ codec.back.pos = Len(codec.bytes) + 1

C8_Witness ==
  /\ codec.pc = "decoded" /\ codec.kind = "request"
  /\ codec.value.variant = "Attestation"
  /\ codec.value.user_data = <<>>
  /\ codec.value.nonce = <<<<24, 23>>>>
  /\ codec.value.public_key = <<>>
  /\ codec.back.ok /\ codec.back.val = codec.value

(***************************************************************************)
(* Several threads of one process using the library at once               *)
(***************************************************************************)

\* extend_pcr(ctx, j): the register index, ((16 + j) & 15), is the low four
\* bits of 16 + j; the data are the low four bytes of j, the highest first.
extend_pcr_index(j) == (16 + j) % 16

extend_pcr_data(j) ==
  <<(j \div 16777216) % 256, (j \div 65536) % 256, (j \div 256) % 256, j % 256>>

extend_pcr_request(j) ==
  [variant |-> "ExtendPCR", index |-> extend_pcr_index(j),
   data |-> extend_pcr_data(j)]

\* Job counters handed to extend_pcr: main hands it every second value of
\* j, starting at 1; the first of them stands for all.
ExtendJobs == {1}

MTRequests ==
  { [variant |-> "DescribePCR", index |-> 5],
    [variant |-> "Attestation", user_data |-> <<>>, nonce |-> <<<<7, 200>>>>,
     public_key |-> <<>>] }
  \cup {extend_pcr_request(j) : j \in ExtendJobs}

MTOutcomes ==
  { [rc |-> -1, errno |-> "EMSGSIZE", bytes |-> <<>>, peer |-> NoPeer],
    Written(EncodeResponse(ErrorResponse("InvalidIndex")), "canonical",
            ErrorResponse("InvalidIndex")),
    Written(EncodeResponse([variant |-> "ExtendPCR", data |-> Rep(171, 48)]),
            "canonical", [variant |-> "ExtendPCR", data |-> Rep(171, 48)]) }

NextMT ==
  \E t \in Threads :
    \/ nsm_init(t)
    \/ \E fd \in FdArgs : nsm_exit(t, fd)
    \/ \E fd \in FdArgs, request \in MTRequests : ProcessRequestCall(t, fd, request)
    \/ \E o \in MTOutcomes, stale \in {"none", "EMSGSIZE"} :
         ProcessRequestReturn(t, o, stale)

SpecMT == Init /\ [][NextMT]_vars

Returned == {t \in Threads : call[t].op = "nsm_process_request" /\ call[t].pc = "done"}

\* The returned exchanges whose device-control call failed, and those whose
\* call succeeded.
Failed == {t \in Returned : call[t].ioctl_calls > 0 /\ call[t].rc # 0}

Succeeded == {t \in Returned : call[t].ioctl_calls > 0 /\ call[t].rc = 0}

\* C1: an exchange whose encoded request is larger than 4096 bytes returns
\* Error(InputTooLarge) and makes no device-control call.
C1_OversizedRejectedLocally ==
  \A t \in Returned :
    Len(call[t].cbor_request) > 4096 =>
      /\ call[t].ret = ErrorResponse("InputTooLarge")
      /\ call[t].ioctl_calls = 0

C1_Witness ==
  \E t \in Returned :
    /\ Len(call[t].cbor_request) > 4096
    /\ call[t].fd \in fd_table
    /\ call[t].ret = ErrorResponse("InputTooLarge")

\* C2: an exchange whose encoded request is at most 4096 bytes makes exactly
\* one device-control call, whatever its outcome; no exchange ever makes a
\* second one.
C2_ExactlyOneCall ==
  \A t \in Threads :
    /\ call[t].ioctl_calls <= 1
    /\ (call[t].op = "nsm_process_request"
        /\ Len(call[t].cbor_request) <= 4096) => call[t].ioctl_calls = 1

C2_Witness ==
  \E t \in Failed : call[t].ioctl_calls = 1 /\ call[t].err = "EINVAL"

\* C3: a device-control call that fails with EMSGSIZE makes the exchange
\* return Error(InputTooLarge).
C3_MsgSizeIsInputTooLarge ==
  \A t \in Failed :
    call[t].err = "EMSGSIZE" => call[t].ret = ErrorResponse("InputTooLarge")

C3_Witness ==
  \E t \in Failed :
    /\ call[t].err = "EMSGSIZE"
    /\ call[t].request.variant = "ExtendPCR"
    /\ call[t].ret = ErrorResponse("InputTooLarge")

\* C4: a device-control call that fails with any other errno makes the
\* exchange return Error(InternalError), and a failed exchange returns one
\* of Error(InputTooLarge), Error(InternalError) and nothing else.
C4_OtherFailureIsInternalError ==
  \A t \in Failed :
    /\ call[t].err # "EMSGSIZE" => call[t].ret = ErrorResponse("InternalError")
    /\ call[t].ret \in {ErrorResponse("InputTooLarge"),
                        ErrorResponse("InternalError")}

C4_Witness ==
  \E t \in Failed :
    /\ call[t].err = "EFAULT"
    /\ call[t].on_device
    /\ call[t].ret = ErrorResponse("InternalError")

\* C5: when the call succeeds and the peer's bytes are a truncated or
\* corrupted encoding, or a value with an unknown variant tag, the exchange
\* returns Error(InternalError).
C5_UndecodableIsInternalError ==
  \A t \in Succeeded :
    call[t].peer.kind \in {"truncated", "corrupted", "unknown_tag"} =>
      call[t].ret = ErrorResponse("InternalError")

C5_Witness ==
  \E t \in Succeeded :
    /\ call[t].peer.kind = "unknown_tag"
    /\ call[t].ret = ErrorResponse("InternalError")

\* C6: when the call succeeds and the peer wrote the canonical encoding of a
\* Response r, the exchange returns r, an Error(code) with its code.
C6_CanonicalResponseReturned ==
  \A t \in Succeeded :
    call[t].peer.kind = "canonical" => call[t].ret = call[t].peer.val

C6_Witness ==
  \E t \in Succeeded :
    /\ call[t].peer.kind = "canonical"
    /\ call[t].peer.val = ErrorResponse("InvalidIndex")
    /\ call[t].ret = ErrorResponse("InvalidIndex")

(***************************************************************************)
(* Properties of nsm_init                                                  *)
(***************************************************************************)

\* C10: nsm_init returns a handle and nothing else: the non-negative
\* descriptor when the device was opened, -1 when it was not, and no
\* protocol Response in either case.
C10_InitReturnsHandleOrMinusOne ==
  \A t \in Threads :
    call[t].op = "nsm_init" =>
      /\ call[t].pc = "done"
      /\ call[t].ok => (call[t].handle >= 0 /\ call[t].handle = call[t].fd)
      /\ ~call[t].ok => call[t].handle = -1
      /\ call[t].ret = NoResponse

C10_Witness ==
  \E t \in Threads :
    /\ call[t].op = "nsm_init"
    /\ ~call[t].ok
    /\ call[t].handle = -1
    /\ fd_table # {}

(***************************************************************************)
(* Properties of nsm_exit                                                  *)
(***************************************************************************)

\* The step is a call of nsm_exit by thread t.
ExitStep(t) ==
  /\ call[t].pc = "done"
  /\ call'[t].op = "nsm_exit"
  /\ fd_table' = fd_table \ {call'[t].fd}
  /\ \A u \in Threads \ {t} : call'[u] = call[u]

\* C11: nsm_exit on a handle that is not open (-1, a descriptor never
\* opened, or one closed before) logs an error and returns: the thread is
\* not left crashed.
C11_ExitOnClosedHandleReported ==
  [][\A t \in Threads :
       (ExitStep(t) /\ call'[t].fd \notin fd_table) =>
         /\ call'[t].pc = "done"
         /\ ~call'[t].ok
         /\ call'[t].log = "error"]_vars

\* A second nsm_exit on the handle nsm_init returned has failed.
C11_Witness ==
  \E t \in Threads :
    /\ call[t].op = "nsm_exit"
    /\ call[t].fd \in Fds
    /\ call[t].fd \notin fd_table
    /\ ~call[t].ok
    /\ call[t].log = "error"
    /\ call[t].pc = "done"

(***************************************************************************)
(* Register data in responses                                              *)
(***************************************************************************)

PcrBearing == {"DescribePCR", "ExtendPCR"}

Injective(tags) == \A a, b \in DOMAIN tags : tags[a] = tags[b] => a = b

\* The tags of a field table are the positions 0..n-1 of the n fields the
\* codec writes and reads for it.
Positional(tags, kinds) ==
  /\ Cardinality(DOMAIN tags) = Len(kinds)
  /\ {tags[f] : f \in DOMAIN tags} = 0..(Len(kinds) - 1)

\* C13: in each of Request, Response, ErrorCode and Digest no two variants
\* share a tag, in each variant and in AttestationDoc no two fields share a
\* tag, and the tag byte of every request sent and of every response decoded
\* names one variant only: the one that was encoded.
C13_TagsUnambiguous ==
  /\ Injective(RequestTag) /\ Injective(ResponseTag)
  /\ Injective(ErrorCodeTag) /\ Injective(DigestTag)
  /\ \A v \in DOMAIN RequestTag :
       Injective(RequestFieldTag[v])
       /\ Positional(RequestFieldTag[v], RequestFields[v])
  /\ \A v \in DOMAIN ResponseTag :
       Injective(ResponseFieldTag[v])
       /\ Positional(ResponseFieldTag[v], ResponseFields[v])
  /\ Injective(AttestationDocFieldTag)
  /\ Positional(AttestationDocFieldTag, AttestationDocFields)
  /\ \A t \in Threads :
       call[t].ioctl_calls = 1 =>
         VariantsOf(RequestTag, call[t].sent[2]) = {call[t].request.variant}
  /\ \A t \in Succeeded :
       call[t].peer.kind = "canonical" =>
         VariantsOf(ResponseTag, call[t].response[2]) = {call[t].ret.variant}

C13_Witness ==
  \E t \in Succeeded :
    /\ call[t].request.variant = "LockPCRs"
    /\ call[t].sent[2] = 3
    /\ call[t].peer.kind = "canonical"
    /\ call[t].ret.variant = "Error"
    /\ call[t].response[2] = 7

(***************************************************************************)
(* Every exchange returns a Response                                       *)
(***************************************************************************)

\* A fully-formed Response: a variant of the union with exactly the fields
\* of that variant, an Error with one of the error codes.
IsResponse(r) ==
  /\ "variant" \in DOMAIN r
  /\ r.variant \in DOMAIN ResponseTag
  /\ DOMAIN r = {"variant"} \cup DOMAIN ResponseFieldTag[r.variant]
  /\ r.variant = "Error" => r.code \in DOMAIN ErrorCodeTag

\* C14: an exchange that has returned has returned one fully-formed
\* Response, on every path; one that has not returned has returned nothing;
\* and an exchange blocked in the device-control call returns once the call
\* completes or fails.
C14_ExchangeReturnsResponse ==
  /\ [](\A t \in Threads :
          call[t].op = "nsm_process_request" =>
            IF call[t].pc = "done" THEN IsResponse(call[t].ret)
            ELSE call[t].ret = NoResponse)
  /\ \A t \in Threads :
       (call[t].op = "nsm_process_request" /\ call[t].pc = "ioctl")
         ~> (call[t].op = "nsm_process_request" /\ call[t].pc = "done"
             /\ IsResponse(call[t].ret))

C14_Witness ==
  \E t \in Succeeded :
    /\ call[t].peer.kind = "truncated"
    /\ call[t].response # <<>>
    /\ IsResponse(call[t].ret)
    /\ call[t].ret = ErrorResponse("InternalError")

(***************************************************************************)
(* Ordering of the exchanges of one caller                                 *)
(***************************************************************************)

\* The device-control calls of thread t in progress.
Outstanding(t) ==
  Cardinality({i \in 1..Len(in_ioctl) : in_ioctl[i].thread = t})

\* C15: a caller never has more than one device-control call in progress,
\* and a request of that caller reaches the device only when the caller's
\* previous exchange, if any, has returned its Response.
C15_RequestThenResponse ==
  [][\A t \in Threads :
       /\ Outstanding(t)' <= 1
       /\ Outstanding(t)' > Outstanding(t) =>
            /\ Outstanding(t) = 0
            /\ call[t].pc = "done"
            /\ call[t].op = "nsm_process_request" => IsResponse(call[t].ret)]_vars

C15_Witness ==
  \E t \in Threads :
    /\ Outstanding(t) = 1
    /\ call[t].pc = "ioctl"
    /\ call[t].fd \in fd_table
    /\ in_ioctl = <<[thread |-> t, fd |-> call[t].fd]>>

(***************************************************************************)
(* Exchanges of different sessions                                         *)
(***************************************************************************)

ExtendSameRegister == extend_pcr_request(1)

\* C16: a thread that is not in an exchange can start one on any open
\* session, an ExtendPCR of the same register included, whatever exchanges
\* of other threads are in progress; so either of two such requests may be
\* the first to reach the peer.
C16_NoCrossSessionSerialization ==
  \A t \in Threads, fd \in fd_table :
    call[t].pc = "done" =>
      ENABLED ProcessRequestCall(t, fd, ExtendSameRegister)

\* Two sessions, the ExtendPCR of extend_pcr in progress on each, the one
\* of t2 issued first.
C16_Witness ==
  /\ Len(in_ioctl) = 2
  /\ in_ioctl[1].thread = "t2" /\ in_ioctl[2].thread = "t1"
  /\ in_ioctl[1].fd # in_ioctl[2].fd
  /\ {in_ioctl[1].fd, in_ioctl[2].fd} \subseteq fd_table
  /\ call["t1"].request = ExtendSameRegister
  /\ call["t2"].request = ExtendSameRegister
  /\ call["t1"].on_device /\ call["t2"].on_device

(***************************************************************************)
(* from_binary on arbitrary bytes                                          *)
(***************************************************************************)

\* An AttestationDoc with all nine fields, each of its type.
IsAttestationDoc(doc) ==
  /\ DOMAIN doc = DOMAIN AttestationDocFieldTag
  /\ doc.digest \in DOMAIN DigestTag
  /\ doc.timestamp \in Nat
  /\ DOMAIN doc.pcrs \subseteq Nat
  /\ \A f \in {"public_key", "user_data", "nonce"} : Len(doc[f]) <= 1

\* C17: from_binary applied to any bytes returns a document or fails with
\* CborDecode, nothing else, and does so with no session open.
C17_FromBinaryTotal ==
  (codec.pc = "decoded" /\ codec.kind = "bytes") =>
    /\ \/ codec.back.ok /\ IsAttestationDoc(codec.back.doc)
       \/ codec.back = [ok |-> FALSE, err |-> "CborDecode"]
    /\ fd_table = {} /\ in_ioctl = <<>>

C17_Witness ==
  /\ codec.pc = "decoded" /\ codec.kind = "bytes"
  /\ Len(codec.bytes) > 20
  /\ codec.back = [ok |-> FALSE, err |-> "CborDecode"]
  /\ fd_table = {}

(***************************************************************************)
(* The message handed to the device                                        *)
(***************************************************************************)

\* C18: in every exchange that makes the device-control call the output
\* capacity is 12288 bytes, for every kind of request, and the input region
\* is the encoding of the request, at most 4096 bytes long.
C18_MessageRegions ==
  \A t \in Threads :
    call[t].ioctl_calls >= 1 =>
      /\ call[t].capacity = 12288
      /\ call[t].sent = EncodeRequest(call[t].request)
      /\ Len(call[t].sent) <= 4096

C18_Witness ==
  \E t \in Threads :
    /\ call[t].ioctl_calls = 1
    /\ call[t].request.variant = "ExtendPCR"
    /\ Len(call[t].sent) = 4096
    /\ call[t].capacity = 12288

(***************************************************************************)
(* The handle of a session                                                 *)
(***************************************************************************)

\* The step is a step of an exchange of thread t: its start (with the local
\* rejection of an oversized request) or its return.
ExchangeStep(t) ==
  /\ call'[t].op = "nsm_process_request"
  /\ call'[t] # call[t]

\* C19: no step of an exchange opens or closes a descriptor, however the
\* exchange ends, and the handle of an exchange that reached the device is
\* still open when the exchange has returned.
C19_ExchangeKeepsHandle ==
  /\ [][\A t \in Threads : ExchangeStep(t) => fd_table' = fd_table]_vars
  /\ [](\A t \in Returned : call[t].on_device => call[t].fd \in fd_table)

C19_Witness ==
  \E t \in Failed :
    /\ call[t].err = "EMSGSIZE"
    /\ call[t].on_device
    /\ call[t].fd \in fd_table
    /\ call[t].fd = 3

(***************************************************************************)
(* Independence of sessions                                                *)
(***************************************************************************)

\* C20: a step that closes descriptors is an nsm_exit and closes the one
\* descriptor passed to it, every other session staying open; and a
\* device-control call is made on the handle passed to the exchange, and
\* reaches the device exactly when that handle is open.
C20_SessionsIndependent ==
  [][/\ (fd_table' # fd_table /\ fd_table' \subseteq fd_table) =>
          \E t \in Threads :
            /\ call'[t].op = "nsm_exit" /\ call'[t].ok
            /\ fd_table' = fd_table \ {call'[t].fd}
     /\ Len(in_ioctl') > Len(in_ioctl) =>
          \E t \in Threads :
            /\ in_ioctl' = Append(in_ioctl, [thread |-> t, fd |-> call'[t].fd])
            /\ call'[t].on_device = (call'[t].fd \in fd_table)]_vars

\* Two sessions were open; one thread has closed its own while the other is
\* in an exchange on the other session, which is still open.
C20_Witness ==
  \E t, u \in Threads :
    /\ call[t].op = "nsm_exit" /\ call[t].ok
    /\ call[t].fd \notin fd_table
    /\ call[u].op = "nsm_process_request" /\ call[u].pc = "ioctl"
    /\ call[u].on_device
    /\ call[u].fd \in fd_table
    /\ call[u].fd # call[t].fd

(***************************************************************************)
(* The size limit, concurrent exchanges, failed calls, closed handles      *)
(***************************************************************************)

\* C24: an exchange whose encoded request is exactly 4096 bytes is not
\* turned away locally: it makes one device-control call with those bytes;
\* an exchange that makes no device-control call has an encoding of 4097
\* bytes or more.
C24_LimitIsInclusive ==
  \A t \in Threads :
    call[t].op = "nsm_process_request" =>
      /\ Len(call[t].cbor_request) = 4096 =>
           /\ call[t].ioctl_calls = 1
           /\ call[t].sent = call[t].cbor_request
      /\ call[t].ioctl_calls = 0 => Len(call[t].cbor_request) >= 4097

\* An exchange of exactly 4096 bytes that the device answered.
C24_Witness ==
  \E t \in Succeeded :
    /\ Len(call[t].cbor_request) = 4096
    /\ call[t].ioctl_calls = 1
    /\ call[t].ret.variant = "ExtendPCR"

\* C25: an exchange that returns while other threads are blocked in calls
\* on the same handle has sent the encoding of its own request, and the
\* Response it returns is the one the peer wrote for it: the bytes of its
\* own response buffer, decoded.
C25_OwnBuffers ==
  \A t \in Succeeded :
    call[t].overlap # {} =>
      /\ call[t].sent = EncodeRequest(call[t].request)
      /\ call[t].peer.kind = "canonical" =>
           /\ call[t].response = EncodeResponse(call[t].peer.val)
           /\ call[t].ret = call[t].peer.val

\* Thread t1 returned an ExtendPCR response while t2 was blocked in a call
\* on the same handle, and t2 has since returned a different response.
C25_Witness ==
  /\ {"t1", "t2"} \subseteq Succeeded
  /\ call["t1"].fd = call["t2"].fd
  /\ call["t1"].overlap = {"t2"}
  /\ call["t1"].ret.variant = "ExtendPCR"
  /\ call["t2"].ret.variant = "Error"
  /\ call["t1"].request # call["t2"].request

\* C26: an exchange whose device-control call failed returns an Error that
\* is fixed by the errno of the failure alone (InputTooLarge for EMSGSIZE,
\* InternalError otherwise), whatever the response buffer holds.
C26_FailedCallNotDecoded ==
  \A t \in Failed :
    /\ call[t].ret.variant = "Error"
    /\ \A u \in Failed :
         call[u].err = call[t].err => call[u].ret = call[t].ret
    /\ call[t].ret \in {ErrorResponse("InputTooLarge"),
                        ErrorResponse("InternalError")}
    /\ call[t].ret = ErrorResponse("InputTooLarge") <=> call[t].err = "EMSGSIZE"

\* A failed call whose buffer holds the encoding of a GetRandom response.
C26_Witness ==
  \E t \in Failed :
    /\ call[t].response # <<>>
    /\ nsm_decode_response_from_cbor(call[t].response).variant = "GetRandom"
    /\ call[t].err = "EINVAL"
    /\ call[t].ret = ErrorResponse("InternalError")

\* C27: an exchange on a descriptor number that is not open (closed by
\* nsm_exit and not handed out again, or never opened), with a request of
\* at most 4096 bytes, still makes its one device-control call, and returns
\* Error(InternalError).
C27_ClosedHandleStillCalled ==
  \A t \in Threads :
    (/\ call[t].op = "nsm_process_request"
     /\ Len(call[t].cbor_request) <= 4096
     /\ ~call[t].on_device) =>
       /\ call[t].ioctl_calls = 1
       /\ call[t].sent = call[t].cbor_request
       /\ call[t].pc = "done" => /\ call[t].err = "EBADF"
                                 /\ call[t].ret = ErrorResponse("InternalError")

\* An exchange on descriptor 3 after nsm_exit(3): nsm_init hands out the
\* lowest free number, so descriptor 4 being open shows that 3 was open
\* before it and has been closed since.
C27_Witness ==
  \E t \in Returned :
    /\ call[t].fd = 3 /\ 3 \notin fd_table /\ 4 \in fd_table
    /\ ~call[t].on_device
    /\ call[t].ioctl_calls = 1
    /\ call[t].ret = ErrorResponse("InternalError")

(***************************************************************************)
(* The multithread harness                                                  *)
(***************************************************************************)

\* C28: every ExtendPCR request of the harness's extend_pcr names a register
\* outside the pre-locked range [0,16): its index is at least 16.
C28_ExtendsRemainingRegisters ==
  \A t \in Threads :
    (call[t].op = "nsm_process_request"
     /\ call[t].request.variant = "ExtendPCR") => call[t].request.index >= 16

====
